---- MODULE Spec2Model ----
(***************************************************************************)
(* A model of the CrossExpo crossword generator (engine/generator, kept in *)
(* src/src/App.tsx from line 89 on) and of the components that call it:    *)
(* App (src/src/App.tsx lines 9-85), Toolbar and WordInput                 *)
(* (src/unnamed/part_001).                                                 *)
(*                                                                         *)
(* Strings are sequences of UTF-16 code units (integers), so that trim,    *)
(* toUpperCase, the character-class replace and the "x,y" grid keys are    *)
(* computed the way the code computes them.  Math.random() is a            *)
(* nondeterministic choice.  The Grid (a JavaScript Map) is a sequence of  *)
(* [k, v] entries in insertion order, which is the order Map.forEach       *)
(* visits them in.                                                         *)
(*                                                                         *)
(* A value used more than once is named by a singleton binding,            *)
(* CHOOSE r \in {e(v) : v \in {x}} : TRUE, which is e(x) with x evaluated   *)
(* once.                                                                   *)
(***************************************************************************)
EXTENDS Integers, Sequences, FiniteSets, TLC

VARIABLES
    inputEntries,  \* generateCrossword's first argument
    maxAttempts,   \* generateCrossword's second argument
    pc,            \* position inside generateCrossword
    entries,       \* NormalisedEntry[] built by the normalisation loop
    sorted,        \* base ordering, longest first
    attempt,       \* counter of the outer for loop
    ordering,      \* ordering of the current attempt
    grid,          \* grid of the current attempt
    placed,        \* PlacedWord[] of the current attempt
    unplaced,      \* labels the current attempt could not place
    wi,            \* counter of the inner for loop (1-based here)
    bestResult,    \* <<>> for null, else <<[placed, grid, unplaced]>>
    result,        \* <<>> until generateCrossword returns, else <<CrosswordResult>>
    mode,          \* WordInput: the input mode, "table" or "text"
    tableEntries,  \* WordInput: the state `entries`, the rows of the table
    text,          \* WordInput: the state `text`, the content of the textarea
    isGenerating,  \* App: the state isGenerating
    lastEntriesRef,\* App: lastEntriesRef.current
    timers,        \* App: the entries of the pending setTimeout callbacks, oldest first
    appResult,     \* App: the state `result`, <<>> for null
    filled         \* App: the state filled

\* the variables of generateCrossword
genVars == <<inputEntries, maxAttempts, pc, entries, sorted, attempt, ordering,
             grid, placed, unplaced, wi, bestResult, result>>

\* the variables of the components App and WordInput
uiVars == <<mode, tableEntries, text, isGenerating, lastEntriesRef, timers,
            appResult, filled>>

vars == <<inputEntries, maxAttempts, pc, entries, sorted, attempt, ordering,
          grid, placed, unplaced, wi, bestResult, result,
          mode, tableEntries, text, isGenerating, lastEntriesRef, timers,
          appResult, filled>>

----------------------------------------------------------------------------
(* Bounds of the model *)

\* an attempt budget below zero: the loop of line 382 takes any number
NoAttempts == -1

\* longest input list of the placement specification
MaxEntries == 3
\* largest attempt budget of the placement specification
MaxAttempts == 2
\* longest input list of the normalisation specification
MaxNormEntries == 2
\* longest single raw word of the normalisation specification
MaxRawLen == 3

\* longest list of entries of the scenario specification
MaxScenarioEntries == 2

\* longest table the user builds row by row
MaxRows == 3
\* most generations pending at once
MaxPending == 2

----------------------------------------------------------------------------
(* Generic helpers *)

Abs(n) == IF n < 0 THEN -n ELSE n

Min(a, b) == IF a < b THEN a ELSE b

SeqsUpTo(S, n) == UNION {[1..k -> S] : k \in 0..n}

Range(s) == {s[i] : i \in DOMAIN s}

RECURSIVE ConcatFrom(_, _)
ConcatFrom(ss, i) == IF i > Len(ss) THEN <<>> ELSE ss[i] \o ConcatFrom(ss, i + 1)

\* the concatenation of a sequence of sequences
Concat(ss) == CHOOSE r \in {ConcatFrom(v, 1) : v \in {ss}} : TRUE

----------------------------------------------------------------------------
(* JavaScript string primitives, on sequences of code units *)

\* String.prototype.trim strips WhiteSpace and LineTerminator code units
IsWhiteSpace(c) ==
    \/ c \in {9, 10, 11, 12, 13, 32, 160, 5760, 8232, 8233, 8239, 8287, 12288, 65279}
    \/ c \in 8192..8202

trim(s) ==
    LET ink == {i \in DOMAIN s : ~IsWhiteSpace(s[i])}
    IN  IF ink = {} THEN <<>>
        ELSE SubSeq(s, CHOOSE i \in ink : \A j \in ink : i <= j,
                       CHOOSE i \in ink : \A j \in ink : i >= j)

\* toUpperCase of one code unit (Basic Latin, Latin-1, Cyrillic); the result
\* is a string because U+00DF uppercases to "SS"
UpperOfChar(c) ==
    IF c \in 97..122 THEN <<c - 32>>
    ELSE IF c = 181 THEN <<924>>
    ELSE IF c = 223 THEN <<83, 83>>
    ELSE IF c \in (224..254) \ {247} THEN <<c - 32>>
    ELSE IF c = 255 THEN <<376>>
    ELSE IF c \in 1072..1103 THEN <<c - 32>>
    ELSE IF c \in 1104..1119 THEN <<c - 80>>
    ELSE <<c>>

toUpperCase(s) == Concat([i \in DOMAIN s |-> UpperOfChar(s[i])])

\* Canonicalize of a case-insensitive, non-unicode RegExp: the upper case of
\* the code unit when that is one code unit, except that a non-ASCII unit
\* never folds to an ASCII one
Canonicalize(c) ==
    LET u == UpperOfChar(c)
    IN  IF Len(u) /= 1 THEN c
        ELSE IF c >= 128 /\ u[1] < 128 THEN c
        ELSE u[1]

\* the class of the replace() call: A-Z, U+0410-U+042F, U+0401, 0-9, matched
\* case-insensitively
InWordClass(c) ==
    LET m == Canonicalize(c)
    IN  m \in 65..90 \/ m \in 1040..1071 \/ m = 1025 \/ m \in 48..57

\* replace(/[^...]/gi, ""): every code unit outside the class is removed
StripNonWord(s) == SelectSeq(s, InWordClass)

CanonicalNoUpperCase(trimmed) == StripNonWord(trimmed)

\* trimmed.toUpperCase().replace(/[^...]/gi, "")
Canonical(trimmed) == StripNonWord(toUpperCase(trimmed))

RECURSIVE NormaliseFromNoSeen(_, _, _, _)
NormaliseFromNoSeen(input, i, seen, acc) ==
    IF i > Len(input) THEN acc
    ELSE LET trimmed == trim(input[i].word)
             upper   == Canonical(trimmed)
         IN  IF Len(trimmed) < 2 THEN NormaliseFromNoSeen(input, i + 1, seen, acc)
             ELSE IF Len(upper) < 2 THEN NormaliseFromNoSeen(input, i + 1, seen, acc)
             ELSE NormaliseFromNoSeen(input, i + 1, seen,
                    Append(acc, [upper |-> upper, original |-> trimmed,
                                 clue |-> trim(input[i].clue)]))

\* the normalisation loop: trim, drop short words, drop repeated canonical forms
RECURSIVE NormaliseFrom(_, _, _, _)
NormaliseFrom(input, i, seen, acc) ==
    IF i > Len(input) THEN acc
    ELSE LET trimmed == trim(input[i].word)
             upper   == Canonical(trimmed)
         IN  IF Len(trimmed) < 2 THEN NormaliseFrom(input, i + 1, seen, acc)
             ELSE IF Len(upper) < 2 THEN NormaliseFrom(input, i + 1, seen, acc)
             ELSE IF upper \in seen THEN NormaliseFrom(input, i + 1, seen, acc)
             ELSE NormaliseFrom(input, i + 1, seen \cup {upper},
                    Append(acc, [upper |-> upper, original |-> trimmed,
                                 clue |-> trim(input[i].clue)]))

NormaliseEntries(input) == NormaliseFrom(input, 1, {}, <<>>)

TrimmedWordsUnfiltered(input) == [i \in DOMAIN input |-> trim(input[i].word)]

\* inputEntries.map((e) => e.word.trim()).filter((w) => w.length > 0)
NonEmptyTrimmedWords(input) ==
    SelectSeq([i \in DOMAIN input |-> trim(input[i].word)], LAMBDA w : Len(w) > 0)

\* position of element i after a stable sort, before[j][i] telling that the
\* comparator puts j first: elements that must come first, plus earlier
\* elements that compare equal
StablePos(before, i) ==
    1 + Cardinality({j \in DOMAIN before : before[j][i]})
      + Cardinality({j \in DOMAIN before : j < i /\ ~before[j][i] /\ ~before[i][j]})

\* Array.prototype.sort with a comparator: a stable sort
StableSort(s, before) ==
    CHOOSE r \in
      { SubSeq([p \in DOMAIN v |-> v[CHOOSE i \in DOMAIN v : StablePos(b, i) = p]],
               1, Len(v)) : v \in {s}, b \in {before} } : TRUE

\* [...entries].sort((a, b) => b.upper.length - a.upper.length)
LongerFirst(a, b) == Len(a.upper) > Len(b.upper)

SortLongestFirst(es) ==
    CHOOSE r \in
      { StableSort(v, [i \in DOMAIN v |-> [j \in DOMAIN v |-> LongerFirst(v[i], v[j])]]) :
          v \in {es} } : TRUE

----------------------------------------------------------------------------
(* Grid keys: key(x, y) is the string `${x},${y}` *)

RECURSIVE DigitsOf(_)
DigitsOf(n) == IF n < 10 THEN <<48 + n>> ELSE Append(DigitsOf(n \div 10), 48 + (n % 10))

\* String(n) of an integer
NumberToString(n) == IF n < 0 THEN <<45>> \o DigitsOf(-n) ELSE DigitsOf(n)

key(x, y) == NumberToString(x) \o <<44>> \o NumberToString(y)

\* k.split(","): the pieces between the commas
RECURSIVE SplitComma(_, _, _)
SplitComma(s, i, cur) ==
    IF i > Len(s) THEN <<cur>>
    ELSE IF s[i] = 44 THEN <<cur>> \o SplitComma(s, i + 1, <<>>)
    ELSE SplitComma(s, i + 1, Append(cur, s[i]))

split(k) == SplitComma(k, 1, <<>>)

RECURSIVE DigitsValue(_, _, _)
DigitsValue(s, i, acc) ==
    IF i > Len(s) \/ s[i] \notin 48..57 THEN acc
    ELSE DigitsValue(s, i + 1, 10 * acc + (s[i] - 48))

\* parseInt(s, 10) and Number(s) on the strings key() writes: an optional
\* sign and decimal digits
parseInt(s) ==
    IF s /= <<>> /\ s[1] = 45 THEN -DigitsValue(s, 2, 0)
    ELSE IF s /= <<>> /\ s[1] = 43 THEN DigitsValue(s, 2, 0)
    ELSE DigitsValue(s, 1, 0)

KeyX(k) == parseInt(split(k)[1])

KeyY(k) == parseInt(split(k)[2])

----------------------------------------------------------------------------
(* The Grid: a Map from key to Cell, as a sequence of entries in insertion *)
(* order.  An absent value (undefined, null) is <<>>, a present one <<v>>. *)

MapHas(m, k) == \E kk \in {k} : \E i \in DOMAIN m : m[i].k = kk

MapGet(m, k) ==
    CHOOSE r \in
      { IF \E i \in DOMAIN m : m[i].k = kk
        THEN <<m[CHOOSE i \in DOMAIN m : m[i].k = kk].v>>
        ELSE <<>> : kk \in {k} } : TRUE

\* Map.set: a new key goes to the end, an existing key keeps its place
MapSet(m, k, v) ==
    IF MapHas(m, k) THEN [i \in DOMAIN m |-> IF m[i].k = k THEN [k |-> k, v |-> v] ELSE m[i]]
    ELSE Append(m, [k |-> k, v |-> v])

getCell(g, x, y) == MapGet(g, key(x, y))

Occupied(g, x, y) == MapHas(g, key(x, y))

----------------------------------------------------------------------------
(* Placement *)

Directions == {"across", "down"}

\* canPlace without `if (existing.letter !== word[i]) return null`
canPlaceAnyLetter(g, word, startX, startY, direction) ==
    LET dx == IF direction = "across" THEN 1 ELSE 0
        dy == IF direction = "down" THEN 1 ELSE 0
        perpDx == IF direction = "across" THEN 0 ELSE 1
        perpDy == IF direction = "down" THEN 0 ELSE 1
        n == Len(word)
        CellOk(i) ==
            \/ Occupied(g, startX + i * dx, startY + i * dy)
            \/ ~Occupied(g, startX + i * dx + perpDx, startY + i * dy + perpDy)
               /\ ~Occupied(g, startX + i * dx - perpDx, startY + i * dy - perpDy)
    IN  IF Occupied(g, startX - dx, startY - dy) THEN <<>>
        ELSE IF Occupied(g, startX + n * dx, startY + n * dy) THEN <<>>
        ELSE IF \E i \in 0..(n - 1) : ~CellOk(i) THEN <<>>
        ELSE <<SelectSeq([i \in 1..n |-> i - 1],
                         LAMBDA i : Occupied(g, startX + i * dx, startY + i * dy))>>

\* canPlace without `if (n1 || n2) return null`
canPlaceBesideLetters(g, word, startX, startY, direction) ==
    LET dx == IF direction = "across" THEN 1 ELSE 0
        dy == IF direction = "down" THEN 1 ELSE 0
        n == Len(word)
        CellOk(i) ==
            \E existing \in {getCell(g, startX + i * dx, startY + i * dy)} :
                existing /= <<>> => existing[1].letter = word[i + 1]
    IN  IF Occupied(g, startX - dx, startY - dy) THEN <<>>
        ELSE IF Occupied(g, startX + n * dx, startY + n * dy) THEN <<>>
        ELSE IF \E i \in 0..(n - 1) : ~CellOk(i) THEN <<>>
        ELSE <<SelectSeq([i \in 1..n |-> i - 1],
                         LAMBDA i : Occupied(g, startX + i * dx, startY + i * dy))>>

\* canPlace with the perpendicular test on every cell of the word, not only
\* on the empty ones
canPlaceSidesEverywhere(g, word, startX, startY, direction) ==
    LET dx == IF direction = "across" THEN 1 ELSE 0
        dy == IF direction = "down" THEN 1 ELSE 0
        perpDx == IF direction = "across" THEN 0 ELSE 1
        perpDy == IF direction = "down" THEN 0 ELSE 1
        n == Len(word)
        CellOk(i) ==
            \E existing \in {getCell(g, startX + i * dx, startY + i * dy)} :
                /\ existing /= <<>> => existing[1].letter = word[i + 1]
                /\ ~Occupied(g, startX + i * dx + perpDx, startY + i * dy + perpDy)
                /\ ~Occupied(g, startX + i * dx - perpDx, startY + i * dy - perpDy)
    IN  IF Occupied(g, startX - dx, startY - dy) THEN <<>>
        ELSE IF Occupied(g, startX + n * dx, startY + n * dy) THEN <<>>
        ELSE IF \E i \in 0..(n - 1) : ~CellOk(i) THEN <<>>
        ELSE <<SelectSeq([i \in 1..n |-> i - 1],
                         LAMBDA i : Occupied(g, startX + i * dx, startY + i * dy))>>

\* canPlace: <<>> for null, else <<intersections>>, the 0-based indices of
\* the word that fall on existing letters
canPlace(g, word, startX, startY, direction) ==
    LET dx == IF direction = "across" THEN 1 ELSE 0
        dy == IF direction = "down" THEN 1 ELSE 0
        perpDx == IF direction = "across" THEN 0 ELSE 1
        perpDy == IF direction = "down" THEN 0 ELSE 1
        n == Len(word)
        CellOk(i) ==
            \E existing \in {getCell(g, startX + i * dx, startY + i * dy)} :
                IF existing /= <<>>
                THEN existing[1].letter = word[i + 1]
                ELSE ~Occupied(g, startX + i * dx + perpDx, startY + i * dy + perpDy)
                     /\ ~Occupied(g, startX + i * dx - perpDx, startY + i * dy - perpDy)
    IN  IF Occupied(g, startX - dx, startY - dy) THEN <<>>
        ELSE IF Occupied(g, startX + n * dx, startY + n * dy) THEN <<>>
        ELSE IF \E i \in 0..(n - 1) : ~CellOk(i) THEN <<>>
        ELSE <<SelectSeq([i \in 1..n |-> i - 1],
                         LAMBDA i : Occupied(g, startX + i * dx, startY + i * dy))>>

RECURSIVE PlaceFrom(_, _, _, _, _, _, _)
PlaceFrom(g, word, startX, startY, dx, dy, i) ==
    IF i >= Len(word) THEN g
    ELSE CHOOSE r \in
           { PlaceFrom(g2, word, startX, startY, dx, dy, i + 1) :
               g2 \in { IF ~MapHas(g, key(startX + i * dx, startY + i * dy))
                        THEN MapSet(g, key(startX + i * dx, startY + i * dy),
                                    [letter |-> word[i + 1], isLetter |-> TRUE])
                        ELSE g } } : TRUE

\* placeWord writing into a new Map instead of the grid it was given
placeWordFresh(g, word, startX, startY, direction) ==
    PlaceFrom(<<>>, word, startX, startY,
              IF direction = "across" THEN 1 ELSE 0,
              IF direction = "down" THEN 1 ELSE 0, 0)

\* placeWord with dx and dy the wrong way round
placeWordTransposed(g, word, startX, startY, direction) ==
    PlaceFrom(g, word, startX, startY,
              IF direction = "across" THEN 0 ELSE 1,
              IF direction = "down" THEN 0 ELSE 1, 0)

placeWord(g, word, startX, startY, direction) ==
    PlaceFrom(g, word, startX, startY,
              IF direction = "across" THEN 1 ELSE 0,
              IF direction = "down" THEN 1 ELSE 0, 0)

\* HypothesesAt with `length > 1` for `length > 0`
HypothesesAtTwoCrossings(g, word, gx, gy, i) ==
    CHOOSE r \in
      { (IF acrossResult /= <<>> /\ Len(acrossResult[1]) > 1
         THEN <<[x |-> gx - i, y |-> gy, direction |-> "across",
                 intersections |-> acrossResult[1]]>>
         ELSE <<>>)
        \o
        (IF downResult /= <<>> /\ Len(downResult[1]) > 1
         THEN <<[x |-> gx, y |-> gy - i, direction |-> "down",
                 intersections |-> downResult[1]]>>
         ELSE <<>>) :
          acrossResult \in {canPlace(g, word, gx - i, gy, "across")},
          downResult   \in {canPlace(g, word, gx, gy - i, "down")} } : TRUE

\* the candidates one grid cell and one word index contribute: across, then down
HypothesesAt(g, word, gx, gy, i) ==
    CHOOSE r \in
      { (IF acrossResult /= <<>> /\ Len(acrossResult[1]) > 0
         THEN <<[x |-> gx - i, y |-> gy, direction |-> "across",
                 intersections |-> acrossResult[1]]>>
         ELSE <<>>)
        \o
        (IF downResult /= <<>> /\ Len(downResult[1]) > 0
         THEN <<[x |-> gx, y |-> gy - i, direction |-> "down",
                 intersections |-> downResult[1]]>>
         ELSE <<>>) :
          acrossResult \in {canPlace(g, word, gx - i, gy, "across")},
          downResult   \in {canPlace(g, word, gx, gy - i, "down")} } : TRUE

\* findCandidates without the filter
DeduplicateNothing(cs, i, seen) == SubSeq(cs, i, Len(cs))

\* the filter with the `seen` set: the first candidate of each (x, y, direction)
RECURSIVE Deduplicate(_, _, _)
Deduplicate(cs, i, seen) ==
    IF i > Len(cs) THEN <<>>
    ELSE LET id == <<cs[i].x, cs[i].y, cs[i].direction>>
         IN  IF id \in seen THEN Deduplicate(cs, i + 1, seen)
             ELSE <<cs[i]>> \o Deduplicate(cs, i + 1, seen \cup {id})

\* grid.forEach: every cell, every word index with the cell's letter
CandidatesOfCell(g, word, e) ==
    CHOOSE r \in
      { Concat([j \in 1..Len(word) |->
                  IF word[j] /= g[e].v.letter THEN <<>>
                  ELSE HypothesesAt(g, word, gx, gy, j - 1)]) :
          gx \in {KeyX(g[e].k)}, gy \in {KeyY(g[e].k)} } : TRUE

findCandidates(g, word) ==
    CHOOSE r \in
      { Deduplicate(cs, 1, {}) :
          cs \in {Concat([e \in DOMAIN g |-> CandidatesOfCell(g, word, e)])} } : TRUE

\* scoreCandidate, in tenths: 100 * intersections - 0.1 * (|x| + |y|)
scoreCandidate(c) == Len(c.intersections) * 1000 - (Abs(c.x) + Abs(c.y))

\* the comparator the other way round: scoreCandidate(a) - scoreCandidate(b)
LowerScore(a, b) == scoreCandidate(a) < scoreCandidate(b)

\* candidates.sort((a, b) => scoreCandidate(b) - scoreCandidate(a))
HigherScore(a, b) == scoreCandidate(a) > scoreCandidate(b)

SortCandidates(cs) ==
    CHOOSE r \in
      { StableSort(v, [i \in DOMAIN v |-> [j \in DOMAIN v |-> HigherScore(v[i], v[j])]]) :
          v \in {cs} } : TRUE

----------------------------------------------------------------------------
(* Bounds, numbering, shuffle, projection *)

ZeroBounds == [minX |-> 0, minY |-> 0, maxX |-> 0, maxY |-> 0, width |-> 0, height |-> 0]

computeBounds(g) ==
    IF g = <<>>
    THEN [minX |-> 0, minY |-> 0, maxX |-> 0, maxY |-> 0, width |-> 1, height |-> 1]
    ELSE CHOOSE r \in
           { LET minX == CHOOSE x \in xs : \A o \in xs : x <= o
                 maxX == CHOOSE x \in xs : \A o \in xs : x >= o
                 minY == CHOOSE y \in ys : \A o \in ys : y <= o
                 maxY == CHOOSE y \in ys : \A o \in ys : y >= o
             IN  [minX |-> minX, minY |-> minY, maxX |-> maxX, maxY |-> maxY,
                  width |-> maxX - minX + 1, height |-> maxY - minY + 1] :
               xs \in {{KeyX(g[i].k) : i \in DOMAIN g}},
               ys \in {{KeyY(g[i].k) : i \in DOMAIN g}} } : TRUE

\* the keys of the `starts` map, in order of first appearance
RECURSIVE StartKeys(_, _, _)
StartKeys(words, i, acc) ==
    IF i > Len(words) THEN acc
    ELSE LET k == key(words[i].x, words[i].y)
         IN  StartKeys(words, i + 1, IF k \in Range(acc) THEN acc ELSE Append(acc, k))

ColumnBefore(a, b) ==
    IF KeyX(a) /= KeyX(b) THEN KeyX(a) < KeyX(b) ELSE KeyY(a) < KeyY(b)

\* the comparator of sortedKeys: y first, then x
ReadingBefore(a, b) ==
    IF KeyY(a) /= KeyY(b) THEN KeyY(a) < KeyY(b) ELSE KeyX(a) < KeyX(b)

SortedKeys(words) ==
    CHOOSE r \in
      { StableSort(ks, [i \in DOMAIN ks |-> [j \in DOMAIN ks |-> ReadingBefore(ks[i], ks[j])]]) :
          ks \in {StartKeys(words, 1, <<>>)} } : TRUE

\* assignNumbers with `num++` ahead of `cell.number = num`
assignNumbersCellLate(words, g) ==
    CHOOSE r \in
      { LET NumOf(k) == CHOOSE n \in DOMAIN sortedKeys : sortedKeys[n] = k
        IN  [words |-> [i \in DOMAIN words |->
                          [words[i] EXCEPT !.number = NumOf(key(words[i].x, words[i].y))]],
             grid  |-> [i \in DOMAIN g |->
                          IF g[i].k \in Range(sortedKeys)
                          THEN [k |-> g[i].k, v |-> [number |-> NumOf(g[i].k) + 1] @@ g[i].v]
                          ELSE g[i]]] :
          sortedKeys \in {SortedKeys(words)} } : TRUE

\* assignNumbers mutates the words and the grid cells; here it returns both
assignNumbers(words, g) ==
    CHOOSE r \in
      { LET NumOf(k) == CHOOSE n \in DOMAIN sortedKeys : sortedKeys[n] = k
        IN  [words |-> [i \in DOMAIN words |->
                          [words[i] EXCEPT !.number = NumOf(key(words[i].x, words[i].y))]],
             grid  |-> [i \in DOMAIN g |->
                          IF g[i].k \in Range(sortedKeys)
                          THEN [k |-> g[i].k, v |-> [number |-> NumOf(g[i].k)] @@ g[i].v]
                          ELSE g[i]]] :
          sortedKeys \in {SortedKeys(words)} } : TRUE

\* the draws of one Fisher-Yates shuffle of n elements: j for i = n-1 .. 1
ShuffleDraws(n) == {js \in [1..(n - 1) -> 0..(n - 1)] : \A i \in 1..(n - 1) : js[i] <= i}

RECURSIVE ShuffleFrom(_, _, _)
ShuffleFrom(a, js, i) ==
    IF i <= 0 THEN a
    ELSE CHOOSE r \in
           { ShuffleFrom(a2, js, i - 1) :
               a2 \in {[a EXCEPT ![i + 1] = a[js[i] + 1], ![js[i] + 1] = a[i + 1]]} } : TRUE

\* a shuffle that draws every position afresh instead of swapping
shuffleByDrawing(arr, js) ==
    [i \in DOMAIN arr |-> IF i = 1 THEN arr[1] ELSE arr[js[i - 1] + 1]]

shuffle(arr, js) == ShuffleFrom(arr, js, Len(arr) - 1)

\* gridTo2D: rows of cells, <<>> for null
gridTo2D(res) ==
    LET b == res.bounds
        nRows == IF b.maxY >= b.minY THEN b.maxY - b.minY + 1 ELSE 0
        nCols == IF b.maxX >= b.minX THEN b.maxX - b.minX + 1 ELSE 0
    IN  [r \in 1..nRows |->
           [c \in 1..nCols |-> getCell(res.grid, b.minX + c - 1, b.minY + r - 1)]]

----------------------------------------------------------------------------
(* Inputs *)

\* raw words of the placement specification:
\* "AB", "ABC", "CA", "CD", "a"
PlacementWords ==
    { <<65, 66>>, <<65, 66, 67>>, <<67, 65>>, <<67, 68>>, <<97>> }

PlacementEntries == {[word |-> w, clue |-> <<>>] : w \in PlacementWords}

\* code units of the single raw words of the normalisation specification:
\* space, "-", "5", "B", "a", U+00DF, U+00E9, U+044F
RawChars == {32, 45, 53, 66, 97, 223, 233, 1103}

\* raw words of the lists of the normalisation specification:
\* "", "a", "ab", "AB", " ab ", "a-b", U+00DF, "ss"
NormWords ==
    { <<>>, <<97>>, <<97, 98>>, <<65, 66>>, <<32, 97, 98, 32>>, <<97, 45, 98>>,
      <<223>>, <<115, 115>> }

\* with the clues "" and " c "
NormEntries == {[word |-> w, clue |-> c] : w \in NormWords, c \in {<<>>, <<32, 99, 32>>}}

NormInputs ==
    SeqsUpTo(NormEntries, MaxNormEntries)
    \cup {<<[word |-> w, clue |-> <<>>]>> : w \in SeqsUpTo(RawChars, MaxRawLen)}

----------------------------------------------------------------------------
(* generateCrossword *)

\* const EMPTY_ROW: WordEntry = { word: "", clue: "" }
EMPTY_ROW == [word |-> <<>>, clue |-> <<>>]

\* the components as they are mounted: the useState and useRef initial values
InitUI ==
    /\ mode = "table"
    /\ tableEntries = <<EMPTY_ROW, EMPTY_ROW>>
    /\ text = <<>>
    /\ isGenerating = FALSE
    /\ lastEntriesRef = <<>>
    /\ timers = <<>>
    /\ appResult = <<>>
    /\ filled = TRUE

InitLocals ==
    /\ InitUI
    /\ pc = "normalise"
    /\ entries = <<>>
    /\ sorted = <<>>
    /\ attempt = 0
    /\ ordering = <<>>
    /\ grid = <<>>
    /\ placed = <<>>
    /\ unplaced = <<>>
    /\ wi = 1
    /\ bestResult = <<>>
    /\ result = <<>>

Init ==
    /\ inputEntries \in SeqsUpTo(PlacementEntries, MaxEntries)
    /\ maxAttempts \in NoAttempts..MaxAttempts
    /\ InitLocals

InitNorm ==
    /\ inputEntries \in NormInputs
    /\ maxAttempts = 0
    /\ InitLocals

\* lines 350-360
Normalise ==
    /\ pc = "normalise"
    /\ entries' = NormaliseEntries(inputEntries)
    /\ pc' = "checkEmpty"
    /\ UNCHANGED uiVars
    /\ UNCHANGED <<inputEntries, maxAttempts, sorted, attempt, ordering, grid,
                   placed, unplaced, wi, bestResult, result>>

\* lines 362-371
ReturnEmpty ==
    /\ pc = "checkEmpty"
    /\ Len(entries) = 0
    /\ result' = <<[words |-> <<>>, grid |-> <<>>, bounds |-> ZeroBounds,
                    unplacedWords |-> NonEmptyTrimmedWords(inputEntries)]>>
    /\ pc' = "done"
    /\ UNCHANGED uiVars
    /\ UNCHANGED <<inputEntries, maxAttempts, entries, sorted, attempt, ordering,
                   grid, placed, unplaced, wi, bestResult>>

\* lines 373-380
SortEntries ==
    /\ pc = "checkEmpty"
    /\ Len(entries) /= 0
    /\ sorted' = SortLongestFirst(entries)
    /\ bestResult' = <<>>
    /\ attempt' = 0
    /\ pc' = "loop"
    /\ UNCHANGED uiVars
    /\ UNCHANGED <<inputEntries, maxAttempts, entries, ordering, grid, placed,
                   unplaced, wi, result>>

\* lines 382-386: the head of one attempt
StartAttempt ==
    /\ pc = "loop"
    /\ attempt < maxAttempts
    /\ IF attempt = 0
       THEN ordering' = sorted
       ELSE \E js \in ShuffleDraws(Len(sorted)) : ordering' = shuffle(sorted, js)
    /\ grid' = <<>>
    /\ placed' = <<>>
    /\ unplaced' = <<>>
    /\ wi' = 1
    /\ pc' = "word"
    /\ UNCHANGED uiVars
    /\ UNCHANGED <<inputEntries, maxAttempts, entries, sorted, attempt, bestResult, result>>

PlacedWord(e, x, y, dir) ==
    [word |-> e.upper, label |-> e.original, clue |-> e.clue,
     x |-> x, y |-> y, direction |-> dir, number |-> 0]

\* without `if (grid.size === 0)`: the first word looks for candidates on the
\* empty grid and finds none
PlaceFirstAsOthers ==
    /\ pc = "word"
    /\ wi <= Len(ordering)
    /\ Len(grid) = 0
    /\ unplaced' = Append(unplaced, ordering[wi].original)
    /\ wi' = wi + 1
    /\ UNCHANGED uiVars
    /\ UNCHANGED <<inputEntries, maxAttempts, pc, entries, sorted, attempt, ordering,
                   grid, placed, bestResult, result>>

\* lines 391-405: the first word goes to (0,0)
PlaceFirst ==
    /\ pc = "word"
    /\ wi <= Len(ordering)
    /\ Len(grid) = 0
    /\ \E dir \in Directions :
          /\ grid' = placeWord(grid, ordering[wi].upper, 0, 0, dir)
          /\ placed' = Append(placed, PlacedWord(ordering[wi], 0, 0, dir))
    /\ wi' = wi + 1
    /\ UNCHANGED uiVars
    /\ UNCHANGED <<inputEntries, maxAttempts, pc, entries, sorted, attempt, ordering,
                   unplaced, bestResult, result>>

SkipWordUnrecorded ==
    /\ pc = "word"
    /\ wi <= Len(ordering)
    /\ Len(grid) /= 0
    /\ Len(findCandidates(grid, ordering[wi].upper)) = 0
    /\ wi' = wi + 1
    /\ UNCHANGED uiVars
    /\ UNCHANGED <<inputEntries, maxAttempts, pc, entries, sorted, attempt, ordering,
                   grid, placed, unplaced, bestResult, result>>

\* lines 407-412: no candidate
SkipWord ==
    /\ pc = "word"
    /\ wi <= Len(ordering)
    /\ Len(grid) /= 0
    /\ Len(findCandidates(grid, ordering[wi].upper)) = 0
    /\ unplaced' = Append(unplaced, ordering[wi].original)
    /\ wi' = wi + 1
    /\ UNCHANGED uiVars
    /\ UNCHANGED <<inputEntries, maxAttempts, pc, entries, sorted, attempt, ordering,
                   grid, placed, bestResult, result>>

\* lines 414-433: score, pick, commit
PlacePick ==
    /\ pc = "word"
    /\ wi <= Len(ordering)
    /\ Len(grid) /= 0
    /\ \E candidates \in {SortCandidates(findCandidates(grid, ordering[wi].upper))} :
          /\ Len(candidates) /= 0
          /\ \E r \in 0..(Min(3, Len(candidates)) - 1) :
                /\ (attempt > 0 /\ Len(candidates) > 1) \/ r = 0
                /\ LET pick == candidates[r + 1]
                   IN  /\ grid' = placeWord(grid, ordering[wi].upper, pick.x, pick.y,
                                            pick.direction)
                       /\ placed' = Append(placed, PlacedWord(ordering[wi], pick.x, pick.y,
                                                              pick.direction))
    /\ wi' = wi + 1
    /\ UNCHANGED uiVars
    /\ UNCHANGED <<inputEntries, maxAttempts, pc, entries, sorted, attempt, ordering,
                   unplaced, bestResult, result>>

\* the end of an attempt with another test for keeping it (keep), for
\* stopping (stop) and another next attempt index (next)
EndAttemptWith(keep, stop, next) ==
    /\ pc = "word"
    /\ wi > Len(ordering)
    /\ IF keep
       THEN /\ bestResult' = <<[placed |-> placed, grid |-> grid, unplaced |-> unplaced]>>
            /\ IF stop
               THEN pc' = "finish" /\ attempt' = attempt
               ELSE pc' = "loop" /\ attempt' = next
       ELSE /\ bestResult' = bestResult
            /\ pc' = "loop"
            /\ attempt' = next
    /\ ordering' = <<>>
    /\ grid' = <<>>
    /\ placed' = <<>>
    /\ unplaced' = <<>>
    /\ wi' = 1
    /\ UNCHANGED uiVars
    /\ UNCHANGED <<inputEntries, maxAttempts, entries, sorted, result>>

\* a grid declared outside the attempt loop: an attempt that is not kept
\* still leaves its grid in bestResult
EndAttemptSharedGrid ==
    /\ pc = "word"
    /\ wi > Len(ordering)
    /\ IF bestResult = <<>> \/ Len(placed) > Len(bestResult[1].placed)
       THEN /\ bestResult' = <<[placed |-> placed, grid |-> grid, unplaced |-> unplaced]>>
            /\ IF Len(unplaced) = 0
               THEN pc' = "finish" /\ attempt' = attempt
               ELSE pc' = "loop" /\ attempt' = attempt + 1
       ELSE /\ bestResult' = <<[bestResult[1] EXCEPT !.grid = grid]>>
            /\ pc' = "loop"
            /\ attempt' = attempt + 1
    /\ ordering' = <<>>
    /\ grid' = <<>>
    /\ placed' = <<>>
    /\ unplaced' = <<>>
    /\ wi' = 1
    /\ UNCHANGED uiVars
    /\ UNCHANGED <<inputEntries, maxAttempts, entries, sorted, result>>

\* placed.length < bestResult.placed.length
EndAttemptKeepFewer ==
    EndAttemptWith(bestResult = <<>> \/ Len(placed) < Len(bestResult[1].placed),
                   Len(unplaced) = 0, attempt + 1)

\* placed.length >= bestResult.placed.length
EndAttemptKeepTies ==
    EndAttemptWith(bestResult = <<>> \/ Len(placed) >= Len(bestResult[1].placed),
                   Len(unplaced) = 0, attempt + 1)

\* without `if (unplaced.length === 0) break`
EndAttemptNoBreak ==
    EndAttemptWith(bestResult = <<>> \/ Len(placed) > Len(bestResult[1].placed),
                   FALSE, attempt + 1)

\* a loop that does not advance attempt
EndAttemptSameAttempt ==
    EndAttemptWith(bestResult = <<>> \/ Len(placed) > Len(bestResult[1].placed),
                   Len(unplaced) = 0, attempt)

\* lines 436-446: keep the attempt if it is the best so far; stop when all
\* placed.  The attempt's block-scoped grid, placed and unplaced end here.
EndAttempt ==
    /\ pc = "word"
    /\ wi > Len(ordering)
    /\ IF bestResult = <<>> \/ Len(placed) > Len(bestResult[1].placed)
       THEN /\ bestResult' = <<[placed |-> placed, grid |-> grid, unplaced |-> unplaced]>>
            /\ IF Len(unplaced) = 0
               THEN pc' = "finish" /\ attempt' = attempt
               ELSE pc' = "loop" /\ attempt' = attempt + 1
       ELSE /\ bestResult' = bestResult
            /\ pc' = "loop"
            /\ attempt' = attempt + 1
    /\ ordering' = <<>>
    /\ grid' = <<>>
    /\ placed' = <<>>
    /\ unplaced' = <<>>
    /\ wi' = 1
    /\ UNCHANGED uiVars
    /\ UNCHANGED <<inputEntries, maxAttempts, entries, sorted, result>>

\* line 382: the loop condition fails
ExitLoop ==
    /\ pc = "loop"
    /\ attempt >= maxAttempts
    /\ pc' = "finish"
    /\ UNCHANGED uiVars
    /\ UNCHANGED <<inputEntries, maxAttempts, entries, sorted, attempt, ordering, grid,
                   placed, unplaced, wi, bestResult, result>>

\* the fallback of line 453 with the list of the early return of lines 367-369
ReturnNoBestAllInputs ==
    /\ pc = "finish"
    /\ bestResult = <<>>
    /\ result' = <<[words |-> <<>>, grid |-> <<>>, bounds |-> ZeroBounds,
                    unplacedWords |-> NonEmptyTrimmedWords(inputEntries)]>>
    /\ pc' = "done"
    /\ UNCHANGED uiVars
    /\ UNCHANGED <<inputEntries, maxAttempts, entries, sorted, attempt, ordering, grid,
                   placed, unplaced, wi, bestResult>>

\* lines 448-455
ReturnNoBest ==
    /\ pc = "finish"
    /\ bestResult = <<>>
    /\ result' = <<[words |-> <<>>, grid |-> <<>>, bounds |-> ZeroBounds,
                    unplacedWords |-> [i \in DOMAIN entries |-> entries[i].original]]>>
    /\ pc' = "done"
    /\ UNCHANGED uiVars
    /\ UNCHANGED <<inputEntries, maxAttempts, entries, sorted, attempt, ordering, grid,
                   placed, unplaced, wi, bestResult>>

\* lines 457-467
ReturnBest ==
    /\ pc = "finish"
    /\ bestResult /= <<>>
    /\ \E numbered \in {assignNumbers(bestResult[1].placed, bestResult[1].grid)} :
          result' = <<[words |-> numbered.words, grid |-> numbered.grid,
                       bounds |-> computeBounds(numbered.grid),
                       unplacedWords |-> bestResult[1].unplaced]>>
    /\ pc' = "done"
    /\ UNCHANGED uiVars
    /\ UNCHANGED <<inputEntries, maxAttempts, entries, sorted, attempt, ordering, grid,
                   placed, unplaced, wi, bestResult>>

Next ==
    \/ Normalise
    \/ ReturnEmpty
    \/ SortEntries
    \/ StartAttempt
    \/ PlaceFirst
    \/ SkipWord
    \/ PlacePick
    \/ EndAttempt
    \/ ExitLoop
    \/ ReturnNoBest
    \/ ReturnBest

Spec == Init /\ [][Next]_vars

\* generateCrossword with an attempt budget of 0: normalisation and the two
\* results that need no attempt
NextNorm ==
    \/ Normalise
    \/ ReturnEmpty
    \/ SortEntries
    \/ ExitLoop
    \/ ReturnNoBest

SpecNorm == InitNorm /\ [][NextNorm]_vars

\* generateCrossword on lists whose attempts place different numbers of
\* words and see more than three candidates: "ABAB", "ABC", "ADE", "DEF".
\* "DEF" shares no letter with "ABAB" and "ABC", and "ADE" links them.
BudgetWords == { <<65, 66, 65, 66>>, <<65, 66, 67>>, <<65, 68, 69>>, <<68, 69, 70>> }

BudgetEntries == {[word |-> w, clue |-> <<>>] : w \in BudgetWords}

InitBudget ==
    /\ inputEntries \in SeqsUpTo(BudgetEntries, MaxEntries)
    /\ maxAttempts \in 0..MaxAttempts
    /\ InitLocals

SpecBudget == InitBudget /\ [][Next]_vars

\* generateCrossword on the lists of the documented scenarios and their
\* neighbours: "CAT", "ACTOR", "RAT", "CAR", "OCEAN" with the clue "clue",
\* and "DOG", which shares no letter with three of them
CAT == <<67, 65, 84>>

ACTOR == <<65, 67, 84, 79, 82>>

RAT == <<82, 65, 84>>

CAR == <<67, 65, 82>>

OCEAN == <<79, 67, 69, 65, 78>>

DOG == <<68, 79, 71>>

ScenarioEntries ==
    {[word |-> w, clue |-> <<>>] : w \in {CAT, ACTOR, RAT, CAR, DOG}}
    \cup {[word |-> OCEAN, clue |-> <<99, 108, 117, 101>>]}

InitScenario ==
    /\ inputEntries \in SeqsUpTo(ScenarioEntries, MaxScenarioEntries)
    /\ maxAttempts \in 0..MaxAttempts
    /\ InitLocals

SpecScenario == InitScenario /\ [][Next]_vars

\* generateCrossword runs on: a step that can be taken is taken
FairScenario == SpecScenario /\ WF_vars(Next)

----------------------------------------------------------------------------
(* WordInput: the conversion between the table and the text *)

Max(a, b) == IF a > b THEN a ELSE b

\* String.prototype.indexOf(pattern): the first position, 0-based, or -1
indexOf(s, pattern) ==
    LET at == {i \in 0..(Len(s) - Len(pattern)) :
                  SubSeq(s, i + 1, i + Len(pattern)) = pattern}
    IN  IF at = {} THEN -1 ELSE CHOOSE i \in at : \A j \in at : i <= j

\* String.prototype.substring(start, end): both clamped to 0..length, the
\* smaller one first
substring(s, start, end) ==
    LET a == Max(0, Min(start, Len(s)))
        b == Max(0, Min(end, Len(s)))
    IN  SubSeq(s, Min(a, b) + 1, Max(a, b))

\* text.split("\n"): the pieces between the line feeds
SplitLines(s) ==
    LET feeds == {i \in DOMAIN s : s[i] = 10}
        Feed(k) == IF k = 0 THEN 0
                   ELSE IF k > Cardinality(feeds) THEN Len(s) + 1
                   ELSE CHOOSE p \in feeds : Cardinality({q \in feeds : q < p}) = k - 1
    IN  [k \in 1..(Cardinality(feeds) + 1) |-> SubSeq(s, Feed(k - 1) + 1, Feed(k) - 1)]

\* lines.join("\n")
RECURSIVE JoinLines(_, _)
JoinLines(ls, i) ==
    IF i > Len(ls) THEN <<>>
    ELSE IF i = Len(ls) THEN ls[i]
    ELSE ls[i] \o <<10>> \o JoinLines(ls, i + 1)

\* const SEPARATOR = " - "
SEPARATOR == <<32, 45, 32>>

\* const EXAMPLE_ENTRIES
EXAMPLE_ENTRIES ==
    <<
      [word |-> <<1057, 1054, 1051, 1053, 1062, 1045>>,
       clue |-> <<1047, 1074, 1077, 1079, 1076, 1072, 44, 32, 1074, 1086, 1082, 1088,
                1091, 1075, 32, 1082, 1086, 1090, 1086, 1088, 1086, 1081, 32, 1074,
                1088, 1072, 1097, 1072, 1077, 1090, 1089, 1103, 32, 1047, 1077, 1084,
                1083, 1103>>],
      [word |-> <<1054, 1041, 1051, 1040, 1050, 1054>>,
       clue |-> <<1057, 1082, 1086, 1087, 1083, 1077, 1085, 1080, 1077, 32, 1074,
                1086, 1076, 1103, 1085, 1099, 1093, 32, 1082, 1072, 1087, 1077, 1083,
                1100, 32, 1074, 32, 1072, 1090, 1084, 1086, 1089, 1092, 1077, 1088,
                1077>>],
      [word |-> <<1050, 1054, 1057, 1052, 1054, 1057>>,
       clue |-> <<1041, 1077, 1089, 1082, 1086, 1085, 1077, 1095, 1085, 1086, 1077,
                32, 1087, 1088, 1086, 1089, 1090, 1088, 1072, 1085, 1089, 1090, 1074,
                1086, 32, 1079, 1072, 32, 1087, 1088, 1077, 1076, 1077, 1083, 1072,
                1084, 1080, 32, 1047, 1077, 1084, 1083, 1080>>],
      [word |-> <<1054, 1050, 1045, 1040, 1053>>,
       clue |-> <<1054, 1075, 1088, 1086, 1084, 1085, 1099, 1081, 32, 1074, 1086,
                1076, 1086, 1105, 1084, 32, 1089, 32, 1089, 1086, 1083, 1105, 1085,
                1086, 1081, 32, 1074, 1086, 1076, 1086, 1081>>],
      [word |-> <<1050, 1053, 1048, 1043, 1040>>,
       clue |-> <<1055, 1077, 1095, 1072, 1090, 1085, 1086, 1077, 32, 1080, 1079,
                1076, 1072, 1085, 1080, 1077, 32, 1076, 1083, 1103, 32, 1095, 1090,
                1077, 1085, 1080, 1103>>]
    >>

\* the line entriesToText writes for one entry, "" for an empty one
LineOfEntry(e) ==
    LET word == trim(e.word)
        clue == trim(e.clue)
    IN  IF word = <<>> /\ clue = <<>> THEN <<>>
        ELSE IF clue = <<>> THEN word
        ELSE word \o SEPARATOR \o clue

entriesToText(es) ==
    CHOOSE r \in
      { JoinLines(SelectSeq([i \in DOMAIN v |-> LineOfEntry(v[i])],
                            LAMBDA line : Len(line) > 0), 1) : v \in {es} } : TRUE

\* the entry textToEntries reads from one trimmed, non-empty line
EntryOfLine(line) ==
    LET separatorIndex == indexOf(line, SEPARATOR)
    IN  IF separatorIndex /= -1
        THEN [word |-> trim(substring(line, 0, separatorIndex)),
              clue |-> trim(substring(line, separatorIndex + Len(SEPARATOR), Len(line)))]
        ELSE [word |-> line, clue |-> <<>>]

textToEntries(t) ==
    CHOOSE r \in
      { LET trimmed == SelectSeq([i \in DOMAIN raws |-> trim(raws[i])],
                                 LAMBDA line : Len(line) /= 0)
        IN  [i \in DOMAIN trimmed |-> EntryOfLine(trimmed[i])] :
          raws \in {SplitLines(t)} } : TRUE

\* entries.filter((e) => e.word.trim().length > 0)
ValidOf(es) == SelectSeq(es, LAMBDA e : Len(trim(e.word)) > 0)

\* validEntries of the current mode, lines 135-138 and 177-180
validEntries ==
    IF mode = "table" THEN ValidOf(tableEntries) ELSE ValidOf(textToEntries(text))

\* isEmpty, lines 205-208
isEmpty ==
    IF mode = "table"
    THEN \A i \in DOMAIN tableEntries :
            tableEntries[i].word = <<>> /\ tableEntries[i].clue = <<>>
    ELSE trim(text) = <<>>

----------------------------------------------------------------------------
(* WordInput and App: the handlers.  A handler runs to completion, and a   *)
(* click is handled on the state the button was rendered from.             *)

\* generateCrossword is not running
GeneratorIdle ==
    /\ inputEntries = <<>>
    /\ maxAttempts = 0
    /\ pc = "idle"
    /\ entries = <<>>
    /\ sorted = <<>>
    /\ attempt = 0
    /\ ordering = <<>>
    /\ grid = <<>>
    /\ placed = <<>>
    /\ unplaced = <<>>
    /\ wi = 1
    /\ bestResult = <<>>
    /\ result = <<>>

\* the rows a user types into: the first two; further rows come from
\* addRow, from the text and from the example
EditedRows == {0, 1}

\* what a user types into the word field and the clue field of a row
InputWords == { <<>>, <<32, 65, 66>> }

InputClues == { <<>>, <<120>> }

\* what a user leaves in the textarea: nothing; "AB - x"; "AB", a blank
\* line, "AB - x" and "CD"
InputTexts ==
    { <<>>,
      <<65, 66, 32, 45, 32, 120>>,
      <<65, 66, 10, 10, 65, 66, 32, 45, 32, 120, 10, 67, 68>> }

\* parsed.length >= 2 ? parsed : [...parsed, ...Array(2 - parsed.length) of EMPTY_ROW]
PadToTwo(parsed) ==
    IF Len(parsed) >= 2 THEN parsed
    ELSE parsed \o [i \in 1..(2 - Len(parsed)) |-> EMPTY_ROW]

\* switchMode with setEntries(parsed)
SwitchModeUnpadded(newMode) ==
    /\ newMode /= mode
    /\ IF newMode = "text"
       THEN /\ text' = entriesToText(tableEntries)
            /\ tableEntries' = tableEntries
       ELSE /\ tableEntries' = textToEntries(text)
            /\ text' = text
    /\ mode' = newMode
    /\ UNCHANGED <<isGenerating, lastEntriesRef, timers, appResult, filled>>
    /\ UNCHANGED genVars

\* part_001 lines 102-132.  switchingRef is written here and in the
\* animation frame callback and read nowhere.
SwitchMode(newMode) ==
    /\ newMode /= mode
    /\ IF newMode = "text"
       THEN /\ text' = entriesToText(tableEntries)
            /\ tableEntries' = tableEntries
       ELSE /\ tableEntries' = PadToTwo(textToEntries(text))
            /\ text' = text
    /\ mode' = newMode
    /\ UNCHANGED <<isGenerating, lastEntriesRef, timers, appResult, filled>>
    /\ UNCHANGED genVars

\* part_001 lines 144-153, from the inputs of a row (lines 255-273)
UpdateEntry(index, field, value) ==
    /\ mode = "table"
    /\ index \in 0..(Len(tableEntries) - 1)
    /\ Len(tableEntries) <= MaxRows
    /\ tableEntries' = [tableEntries EXCEPT ![index + 1] =
                           IF field = "word" THEN [@ EXCEPT !.word = value]
                                             ELSE [@ EXCEPT !.clue = value]]
    /\ UNCHANGED <<mode, text, isGenerating, lastEntriesRef, timers, appResult, filled>>
    /\ UNCHANGED genVars

\* part_001 lines 155-157, from the button of lines 287-289
AddRow ==
    /\ mode = "table"
    /\ Len(tableEntries) < MaxRows
    /\ tableEntries' = Append(tableEntries, EMPTY_ROW)
    /\ UNCHANGED <<mode, text, isGenerating, lastEntriesRef, timers, appResult, filled>>
    /\ UNCHANGED genVars

\* part_001 lines 159-164, from the button of lines 274-282, which is
\* disabled at two rows
RemoveRow(index) ==
    /\ mode = "table"
    /\ index \in 0..(Len(tableEntries) - 1)
    /\ Len(tableEntries) <= MaxRows
    /\ ~(Len(tableEntries) <= 2)
    /\ tableEntries' =
          IF Len(tableEntries) <= 2 THEN tableEntries
          ELSE [i \in 1..(Len(tableEntries) - 1) |->
                   IF i - 1 < index THEN tableEntries[i] ELSE tableEntries[i + 1]]
    /\ UNCHANGED <<mode, text, isGenerating, lastEntriesRef, timers, appResult, filled>>
    /\ UNCHANGED genVars

\* part_001 lines 189-195, from the button of lines 318-324, which is
\* disabled when there is nothing to clear
HandleClear ==
    /\ ~isEmpty
    /\ IF mode = "table"
       THEN /\ tableEntries' = <<EMPTY_ROW, EMPTY_ROW>>
            /\ text' = text
       ELSE /\ text' = <<>>
            /\ tableEntries' = tableEntries
    /\ UNCHANGED <<mode, isGenerating, lastEntriesRef, timers, appResult, filled>>
    /\ UNCHANGED genVars

\* part_001 lines 197-203
HandleLoadExample ==
    /\ IF mode = "table"
       THEN /\ tableEntries' = EXAMPLE_ENTRIES
            /\ text' = text
       ELSE /\ text' = entriesToText(EXAMPLE_ENTRIES)
            /\ tableEntries' = tableEntries
    /\ UNCHANGED <<mode, isGenerating, lastEntriesRef, timers, appResult, filled>>
    /\ UNCHANGED genVars

\* the onChange of the textarea, part_001 lines 295-302
SetText(value) ==
    /\ mode = "text"
    /\ text' = value
    /\ UNCHANGED <<mode, tableEntries, isGenerating, lastEntriesRef, timers, appResult,
                   filled>>
    /\ UNCHANGED genVars

\* the Toolbar is rendered, and its buttons enabled, when there is a result
\* with a word: App.tsx line 57, Toolbar.tsx lines 38 and 46
hasResult == appResult /= <<>> /\ appResult[1].hasWords

\* App.handleGenerate, App.tsx lines 15-32: the part that runs at once
AppHandleGenerate(es) ==
    /\ isGenerating' = TRUE
    /\ lastEntriesRef' = es
    /\ timers' = Append(timers, es)

\* handleGenerate passing every row on
HandleGenerateUnfiltered ==
    /\ ~(isGenerating \/ Len(validEntries) < 2)
    /\ Len(timers) < MaxPending
    /\ \E valid \in {IF mode = "table" THEN tableEntries ELSE textToEntries(text)} :
          /\ ~(Len(valid) < 2)
          /\ AppHandleGenerate(valid)
    /\ UNCHANGED <<mode, tableEntries, text, appResult, filled>>
    /\ UNCHANGED genVars

\* WordInput.handleGenerate, part_001 lines 176-187, from the button of
\* lines 325-329, and the onGenerate it calls
HandleGenerate ==
    /\ ~(isGenerating \/ Len(validEntries) < 2)
    /\ Len(timers) < MaxPending
    /\ \E valid \in {validEntries} :
          /\ ~(Len(valid) < 2)
          /\ AppHandleGenerate(valid)
    /\ UNCHANGED <<mode, tableEntries, text, appResult, filled>>
    /\ UNCHANGED genVars

\* App.handleRegenerate, App.tsx lines 34-38, from the button of Toolbar.tsx
\* lines 43-50
HandleRegenerate ==
    /\ hasResult
    /\ Len(timers) < MaxPending
    /\ IF Len(lastEntriesRef) >= 2
       THEN AppHandleGenerate(lastEntriesRef)
       ELSE UNCHANGED <<isGenerating, lastEntriesRef, timers>>
    /\ UNCHANGED <<mode, tableEntries, text, appResult, filled>>
    /\ UNCHANGED genVars

\* what App and Toolbar read of the CrosswordResult generateCrossword(es, 80)
\* returns: words is empty exactly when no entry of es survives the
\* normalisation (C8, C26)
GeneratedFrom(es) == [hasWords |-> Len(NormaliseEntries(es)) > 0]

\* the callback of setTimeout, App.tsx lines 20-31; timers of one delay run
\* in the order they were set
TimerFires ==
    /\ timers /= <<>>
    /\ appResult' = <<GeneratedFrom(Head(timers))>>
    /\ filled' = TRUE
    /\ isGenerating' = FALSE
    /\ timers' = Tail(timers)
    /\ UNCHANGED <<mode, tableEntries, text, lastEntriesRef>>
    /\ UNCHANGED genVars

\* App.tsx lines 40-42, from the button of Toolbar.tsx lines 52-59
HandleToggleFilled ==
    /\ hasResult
    /\ filled' = ~filled
    /\ UNCHANGED <<mode, tableEntries, text, isGenerating, lastEntriesRef, timers,
                   appResult>>
    /\ UNCHANGED genVars

\* WordInput alone: every way of editing the table and the text
InitInput ==
    /\ InitUI
    /\ GeneratorIdle

NextInput ==
    \/ \E newMode \in {"table", "text"} : SwitchMode(newMode)
    \/ \E index \in EditedRows :
          \/ \E value \in InputWords : UpdateEntry(index, "word", value)
          \/ \E value \in InputClues : UpdateEntry(index, "clue", value)
    \/ AddRow
    \/ \E index \in 0..(MaxRows - 1) : RemoveRow(index)
    \/ HandleClear
    \/ HandleLoadExample
    \/ \E value \in InputTexts : SetText(value)

SpecInput == InitInput /\ [][NextInput]_vars

\* App with WordInput: what the user typed is drawn at the start, and then
\* the buttons Generate and Regenerate, the mode switch and the toggle are
\* clicked and the timers fire in any order
AppWords == { <<>>, <<32>>, <<65>>, <<65, 66>> }

AppClues == { <<>>, <<120>> }

AppTables ==
    UNION { [1..k -> [word : AppWords, clue : AppClues]] : k \in 2..MaxRows }

InitApp ==
    /\ mode = "table"
    /\ tableEntries \in AppTables
    /\ text = <<>>
    /\ isGenerating = FALSE
    /\ lastEntriesRef = <<>>
    /\ timers = <<>>
    /\ appResult = <<>>
    /\ filled = TRUE
    /\ GeneratorIdle

NextApp ==
    \/ HandleGenerate
    \/ HandleRegenerate
    \/ TimerFires
    \/ HandleToggleFilled
    \/ \E newMode \in {"table", "text"} : SwitchMode(newMode)

SpecApp == InitApp /\ [][NextApp]_vars

----------------------------------------------------------------------------
(* Vocabulary of the properties *)

Done == result /= <<>>

Res == result[1]

\* the coordinates a grid occupies
Cells(g) == {<<KeyX(g[i].k), KeyY(g[i].k)>> : i \in DOMAIN g}

\* the coordinate of the i-th letter (0-based) of a placed word
SpanCell(w, i) ==
    IF w.direction = "across" THEN <<w.x + i, w.y>> ELSE <<w.x, w.y + i>>

Span(w) == {SpanCell(w, i) : i \in 0..(Len(w.word) - 1)}

CellBefore(w) == SpanCell(w, -1)

CellAfter(w) == SpanCell(w, Len(w.word))

\* the two neighbours of a cell perpendicular to a direction
SideCells(c, direction) ==
    IF direction = "across" THEN {<<c[1], c[2] - 1>>, <<c[1], c[2] + 1>>}
    ELSE {<<c[1] - 1, c[2]>>, <<c[1] + 1, c[2]>>}

\* the canonical forms of the input entries that pass both length tests
SurvivingForms(input) ==
    { Canonical(trim(input[i].word)) :
        i \in {j \in DOMAIN input : /\ Len(trim(input[j].word)) >= 2
                                    /\ Len(Canonical(trim(input[j].word))) >= 2} }

NoSurvivor(input) == SurvivingForms(input) = {}

----------------------------------------------------------------------------
(* C1 *)

\* C1 as stated: for every input and budget, |words| + |unplacedWords| is the
\* number of distinct normalised entries.
C1_CountForEveryInput ==
    Done => Len(Res.words) + Len(Res.unplacedWords) = Cardinality(SurvivingForms(inputEntries))

\* C1, amended: whenever at least one entry survives normalisation, the placed
\* and unplaced words together are exactly the surviving entries, each once.
C1_CountWhenSurvivors ==
    (Done /\ ~NoSurvivor(inputEntries)) =>
        /\ Len(Res.words) + Len(Res.unplacedWords) = Cardinality(SurvivingForms(inputEntries))
        /\ {Res.words[i].word : i \in DOMAIN Res.words} \subseteq SurvivingForms(inputEntries)
        /\ Cardinality({Res.words[i].word : i \in DOMAIN Res.words}) = Len(Res.words)
        /\ \A i \in DOMAIN Res.unplacedWords :
              /\ Canonical(Res.unplacedWords[i]) \in SurvivingForms(inputEntries)
              /\ \A j \in DOMAIN Res.words : Res.words[j].word /= Canonical(Res.unplacedWords[i])

\* a result with a placed and an unplaced word from an input that also had a
\* dropped (repeated or too short) entry
C1_Witness ==
    /\ Done
    /\ Len(Res.words) >= 1
    /\ Len(Res.unplacedWords) >= 1
    /\ Len(inputEntries) > Len(Res.words) + Len(Res.unplacedWords)

----------------------------------------------------------------------------
(* C2 *)

\* C2: in the returned result every placed word has an unoccupied cell before
\* its origin and after its last letter, and every cell of its span that no
\* other placed word passes through has unoccupied perpendicular neighbours.
C2_EndsAndSidesClear ==
    Done =>
      \E occ \in {Cells(Res.grid)} :
        \A i \in DOMAIN Res.words :
          /\ CellBefore(Res.words[i]) \notin occ
          /\ CellAfter(Res.words[i]) \notin occ
          /\ \A c \in Span(Res.words[i]) :
                (\A j \in DOMAIN Res.words : j /= i => c \notin Span(Res.words[j]))
                => SideCells(c, Res.words[i].direction) \cap occ = {}

----------------------------------------------------------------------------
(* C3 *)

\* the letter a grid holds at a coordinate; <<>> when unoccupied
LetterAt(g, c) ==
    \* read through the same accessor the code uses
    LET cell == getCell(g, c[1], c[2]) IN IF cell = <<>> THEN <<>> ELSE <<cell[1].letter>>

\* C3: in the returned result every placed word whose span contains an
\* occupied coordinate has, at that index, the letter stored in the cell.
C3_LettersAgree ==
    Done =>
      \A i \in DOMAIN Res.words :
        \A n \in 0..(Len(Res.words[i].word) - 1) :
          \E l \in {LetterAt(Res.grid, SpanCell(Res.words[i], n))} :
            l /= <<>> => l[1] = Res.words[i].word[n + 1]

\* a returned result with a cell in the span of two placed words
C3_Witness ==
    /\ Done
    /\ \E i, j \in DOMAIN Res.words :
          i /= j /\ Span(Res.words[i]) \cap Span(Res.words[j]) /= {}

----------------------------------------------------------------------------
(* C4 *)

\* the length of the maximal run of occupied cells that starts at c and runs
\* in the direction (dx, dy)
RECURSIVE RunLength(_, _, _, _, _)
RunLength(occ, c, dx, dy, n) ==
    IF <<c[1] + n * dx, c[2] + n * dy>> \in occ THEN RunLength(occ, c, dx, dy, n + 1) ELSE n

\* the origins of the maximal runs of two or more cells in a direction
RunStarts(occ, dx, dy) ==
    {c \in occ : /\ <<c[1] - dx, c[2] - dy>> \notin occ
                 /\ <<c[1] + dx, c[2] + dy>> \in occ}

\* the placed words that are exactly the run from c: origin, direction,
\* length and letters
WordsOfRun(g, words, occ, c, direction) ==
    LET dx == IF direction = "across" THEN 1 ELSE 0
        dy == IF direction = "down" THEN 1 ELSE 0
    IN  {i \in DOMAIN words :
            /\ words[i].x = c[1]
            /\ words[i].y = c[2]
            /\ words[i].direction = direction
            /\ Len(words[i].word) = RunLength(occ, c, dx, dy, 0)
            /\ \A n \in 0..(Len(words[i].word) - 1) :
                  LetterAt(g, SpanCell(words[i], n)) = <<words[i].word[n + 1]>>}

RunsAreWords(g, words) ==
    \E occ \in {Cells(g)} :
        /\ \A c \in RunStarts(occ, 1, 0) :
              Cardinality(WordsOfRun(g, words, occ, c, "across")) = 1
        /\ \A c \in RunStarts(occ, 0, 1) :
              Cardinality(WordsOfRun(g, words, occ, c, "down")) = 1

\* C4: after any sequence of placements of an attempt, every maximal run of
\* two or more occupied cells, across or down, is exactly the span of one
\* placed word.
C4_RunsAreWords == RunsAreWords(grid, placed)

\* an attempt that has placed three words
C4_Witness ==
    /\ pc = "word"
    /\ Len(placed) = 3
    /\ RunStarts(Cells(grid), 1, 0) /= {}
    /\ RunStarts(Cells(grid), 0, 1) /= {}

----------------------------------------------------------------------------
(* C5 *)

Adjacent(a, b) == Abs(a[1] - b[1]) + Abs(a[2] - b[2]) = 1

\* the cells of occ that a chain of adjacent occupied cells links to seen
RECURSIVE Reachable(_, _)
Reachable(seen, occ) ==
    CHOOSE r \in
      { IF more = {} THEN seen ELSE Reachable(seen \cup more, occ) :
          more \in {{c \in occ \ seen : \E d \in seen : Adjacent(c, d)}} } : TRUE

Connected(occ) ==
    occ = {} \/ Reachable({CHOOSE c \in occ : TRUE}, occ) = occ

\* the cells of the words placed before the i-th
EarlierCells(words, i) == UNION {Span(words[j]) : j \in 1..(i - 1)}

\* C5: after any sequence of placements of an attempt the occupied cells are
\* one 4-connected region, and every word placed after the first lies on at
\* least one cell that an earlier word of the attempt occupies.
C5_Connected ==
    /\ Connected(Cells(grid))
    /\ \A i \in 2..Len(placed) : Span(placed[i]) \cap EarlierCells(placed, i) /= {}

\* an attempt that has placed three words
C5_Witness == pc = "word" /\ Len(placed) = 3 /\ Len(unplaced) = 0

----------------------------------------------------------------------------
(* C6 *)

Origin(w) == <<w.x, w.y>>

Origins(words) == {Origin(words[i]) : i \in DOMAIN words}

\* reading order: smaller y, then smaller x
ReadsBefore(a, b) == a[2] < b[2] \/ (a[2] = b[2] /\ a[1] < b[1])

\* C6: in the returned result the clue numbers are exactly 1..N for N
\* distinct origins, words of one origin share a number, and an origin
\* earlier in reading order has the strictly smaller number.
C6_NumbersInReadingOrder ==
    Done =>
      /\ {Res.words[i].number : i \in DOMAIN Res.words}
            = 1..Cardinality(Origins(Res.words))
      /\ \A i, j \in DOMAIN Res.words :
            /\ Origin(Res.words[i]) = Origin(Res.words[j])
                  => Res.words[i].number = Res.words[j].number
            /\ ReadsBefore(Origin(Res.words[i]), Origin(Res.words[j]))
                  => Res.words[i].number < Res.words[j].number

\* a returned result with three origins, one of them at a negative coordinate
C6_Witness ==
    /\ Done
    /\ Cardinality(Origins(Res.words)) = 3
    /\ \E i \in DOMAIN Res.words : Res.words[i].x < 0 \/ Res.words[i].y < 0

----------------------------------------------------------------------------
(* C7 *)

\* C7: for every returned result, bounds.height is the number of rows of
\* gridTo2D(result) and bounds.width the number of columns of each row.
C7_BoundsMatchProjection ==
    Done =>
      \E rows \in {gridTo2D(Res)} :
        /\ Res.bounds.height = Len(rows)
        /\ \A r \in DOMAIN rows : Res.bounds.width = Len(rows[r])

----------------------------------------------------------------------------
(* C8 *)

\* the trimmed raw words that are not empty, from the i-th entry on
RECURSIVE RawWordsFrom(_, _)
RawWordsFrom(input, i) ==
    IF i > Len(input) THEN <<>>
    ELSE (IF trim(input[i].word) = <<>> THEN <<>> ELSE <<trim(input[i].word)>>)
         \o RawWordsFrom(input, i + 1)

\* C8: when no input entry survives normalisation the result has no words,
\* an empty grid, bounds {0,0,0,0,0,0} and, as unplacedWords, the non-empty
\* trimmed raw words in input order ([] for the empty list); and the
\* generator does return it.
C8_EmptyResult ==
    NoSurvivor(inputEntries) =>
        /\ pc = "checkEmpty" => ENABLED ReturnEmpty
        /\ pc \in {"normalise", "checkEmpty", "done"}
        /\ Done => /\ Res.words = <<>>
                   /\ Res.grid = <<>>
                   /\ Res.bounds = [minX |-> 0, minY |-> 0, maxX |-> 0, maxY |-> 0,
                                    width |-> 0, height |-> 0]
                   /\ Res.unplacedWords = RawWordsFrom(inputEntries, 1)
                   /\ inputEntries = <<>> => Res.unplacedWords = <<>>

\* an empty result that reports one raw word and leaves out an empty one
C8_Witness ==
    /\ Done
    /\ NoSurvivor(inputEntries)
    /\ Len(inputEntries) = 2
    /\ Len(Res.unplacedWords) = 1

----------------------------------------------------------------------------
(* C9 *)

FormOf(input, k) == Canonical(trim(input[k].word))

LongEnough(input, k) == Len(trim(input[k].word)) >= 2 /\ Len(FormOf(input, k)) >= 2

\* the entry a surviving input entry becomes
EntryOf(input, k) ==
    [upper |-> FormOf(input, k), original |-> trim(input[k].word),
     clue |-> trim(input[k].clue)]

\* es is the entries of the indices in keep, in input order
IsSelection(es, input, keep) ==
    /\ Len(es) = Cardinality(keep)
    /\ \A p \in DOMAIN es :
          \E k \in keep : /\ Cardinality({j \in keep : j <= k}) = p
                          /\ es[p] = EntryOf(input, k)

\* C9 as stated: an entry survives iff it is long enough and no earlier input
\* entry has the same canonical form.
C9_FirstOfAllEntries ==
    pc /= "normalise" =>
        IsSelection(entries, inputEntries,
            {k \in DOMAIN inputEntries :
                /\ LongEnough(inputEntries, k)
                /\ \A j \in 1..(k - 1) : FormOf(inputEntries, j) /= FormOf(inputEntries, k)})

\* C9, amended: an entry survives iff it is long enough and no earlier input
\* entry whose trimmed word has length >= 2 has the same canonical form;
\* survivors keep input order, canonical forms are unique and of length >= 2,
\* label and clue are the first occurrence's, trimmed.
C9_FirstOfLongEntries ==
    pc /= "normalise" =>
        /\ IsSelection(entries, inputEntries,
              {k \in DOMAIN inputEntries :
                  /\ LongEnough(inputEntries, k)
                  /\ \A j \in 1..(k - 1) :
                        Len(trim(inputEntries[j].word)) >= 2
                        => FormOf(inputEntries, j) /= FormOf(inputEntries, k)})
        /\ \A p \in DOMAIN entries : Len(entries[p].upper) >= 2
        /\ \A p, q \in DOMAIN entries : p /= q => entries[p].upper /= entries[q].upper

\* a later entry is dropped for an earlier one of the same canonical form and
\* another label
C9_Witness ==
    /\ pc /= "normalise"
    /\ Len(inputEntries) = 2
    /\ Len(entries) = 1
    /\ LongEnough(inputEntries, 1)
    /\ LongEnough(inputEntries, 2)
    /\ trim(inputEntries[1].word) /= trim(inputEntries[2].word)
    /\ inputEntries[1].clue /= inputEntries[2].clue
    /\ entries[1].clue = trim(inputEntries[1].clue)

----------------------------------------------------------------------------
(* C10 *)

\* letters and decimal digits among the code units the model uppercases:
\* Basic Latin, Latin-1, U+0178, Greek capital mu, Cyrillic
IsLetterOrDigit(c) ==
    \/ c \in 48..57 \/ c \in 65..90 \/ c \in 97..122
    \/ c \in {170, 181, 186, 376, 924}
    \/ c \in (192..255) \ {215, 247}
    \/ c \in 1024..1153 \/ c \in 1162..1279

\* the characters the code keeps: A-Z, U+0410-U+042F, U+0401, 0-9
IsLatinCyrillicOrDigit(c) ==
    c \in 48..57 \/ c \in 65..90 \/ c \in 1040..1071 \/ c = 1025

----------------------------------------------------------------------------
(* C11 *)

\* C11: across the attempts of one run the kept best attempt never gets
\* worse: its placed count does not decrease and its unplaced count does not
\* increase, it never has more unplaced words than a run without attempts
\* reports, and the returned unplacedWords are those of the kept best; so
\* the run with the larger budget, which continues the run with the smaller
\* one, returns at most as many unplacedWords.
C11_BestNeverWorse ==
    [][/\ bestResult /= <<>> =>
             /\ bestResult' /= <<>>
             /\ Len(bestResult'[1].placed) >= Len(bestResult[1].placed)
             /\ Len(bestResult'[1].unplaced) <= Len(bestResult[1].unplaced)
       /\ bestResult' /= <<>> => Len(bestResult'[1].unplaced) <= Len(entries)
       /\ (pc = "finish" /\ result' /= <<>>) =>
             Len(result'[1].unplacedWords)
                = IF bestResult = <<>> THEN Len(entries) ELSE Len(bestResult[1].unplaced)
      ]_vars

\* a run whose second attempt placed all three words where the first did not
C11_Witness ==
    /\ Done
    /\ attempt = 1
    /\ Len(Res.words) = 3
    /\ Len(Res.unplacedWords) = 0

----------------------------------------------------------------------------
(* C12 *)

CatActor == <<[word |-> CAT, clue |-> <<>>], [word |-> ACTOR, clue |-> <<>>]>>

\* C12 as stated: for [("CAT",""), ("ACTOR","")] and a budget >= 1 exactly
\* one word is placed and exactly one is in unplacedWords.
C12_OnePlacedOneUnplaced ==
    (Done /\ inputEntries = CatActor /\ maxAttempts >= 1) =>
        Len(Res.words) = 1 /\ Len(Res.unplacedWords) = 1

\* C12, amended: for [("CAT",""), ("ACTOR","")] and a budget >= 1, under
\* every random choice, both words are placed, ACTOR first, and unplacedWords
\* is empty.
C12_BothPlaced ==
    (Done /\ inputEntries = CatActor /\ maxAttempts >= 1) =>
        /\ [i \in DOMAIN Res.words |-> Res.words[i].word] = <<ACTOR, CAT>>
        /\ Res.unplacedWords = <<>>

\* the returned result for the two entries
C12_Witness == Done /\ inputEntries = CatActor /\ maxAttempts >= 1 /\ Len(Res.words) = 2

----------------------------------------------------------------------------
(* C13 *)

RatCar == <<[word |-> RAT, clue |-> <<>>], [word |-> CAR, clue |-> <<>>]>>

\* C13: for [("RAT",""), ("CAR","")] and a budget >= 1, under every random
\* choice, both words are placed, unplacedWords is empty and a grid cell lies
\* in the span of both words.
C13_RatCarIntersect ==
    (Done /\ inputEntries = RatCar /\ maxAttempts >= 1) =>
        /\ {Res.words[i].word : i \in DOMAIN Res.words} = {RAT, CAR}
        /\ Len(Res.words) = 2
        /\ Res.unplacedWords = <<>>
        /\ Span(Res.words[1]) \cap Span(Res.words[2]) \cap Cells(Res.grid) /= {}

\* the returned result for the two entries, with the first word down
C13_Witness ==
    /\ Done
    /\ inputEntries = RatCar
    /\ maxAttempts >= 1
    /\ Len(Res.words) = 2
    /\ Res.words[1].direction = "down"

----------------------------------------------------------------------------
(* C14 *)

----------------------------------------------------------------------------
(* C15 *)

\* C15: every attempt takes the surviving entries once each, in the order of
\* its ordering (a permutation of the entries); at its turn a word goes to
\* the unplaced list, by its label, iff the grid is not empty and
\* findCandidates returns no candidate for it, else it is placed; what is in
\* either list stays there for the rest of the attempt, whatever is placed
\* later; the kept attempt's lists are the attempt's lists at its end, and
\* the returned unplacedWords and words are those of the kept attempt.
C15_UnplacedIffNoCandidate ==
    [][/\ (pc = "word" /\ wi <= Len(ordering)) =>
             /\ pc' = "word"
             /\ wi' = wi + 1
             /\ ordering' = ordering
             /\ IF grid /= <<>> /\ findCandidates(grid, ordering[wi].upper) = <<>>
                THEN /\ unplaced' = Append(unplaced, ordering[wi].original)
                     /\ placed' = placed
                ELSE /\ unplaced' = unplaced
                     /\ Len(placed') = Len(placed) + 1
                     /\ SubSeq(placed', 1, Len(placed)) = placed
                     /\ placed'[Len(placed')].label = ordering[wi].original
       /\ (pc = "loop" /\ pc' = "word") =>
             /\ Len(ordering') = Len(entries)
             /\ Range(ordering') = Range(entries)
             /\ wi' = 1
             /\ placed' = <<>>
             /\ unplaced' = <<>>
       /\ bestResult' /= bestResult =>
             /\ pc = "word"
             /\ wi = Len(ordering) + 1
             /\ bestResult' = <<[placed |-> placed, grid |-> grid, unplaced |-> unplaced]>>
       /\ (result' /= result /\ bestResult /= <<>>) =>
             /\ result'[1].unplacedWords = bestResult[1].unplaced
             /\ [i \in DOMAIN result'[1].words |-> result'[1].words[i].label]
                   = [i \in DOMAIN bestResult[1].placed |-> bestResult[1].placed[i].label]
      ]_vars

\* the end of an attempt in which a skipped word would have a candidate on
\* the final grid
C15_Witness ==
    /\ pc = "word"
    /\ wi > Len(ordering)
    /\ \E i \in DOMAIN ordering :
          /\ ordering[i].original \in Range(unplaced)
          /\ findCandidates(grid, ordering[i].upper) /= <<>>

----------------------------------------------------------------------------
(* C16 *)

\* the word indices of a placement that fall on occupied cells
Crossings(occ, w) == {i \in 0..(Len(w.word) - 1) : SpanCell(w, i) \in occ}

\* a valid placement with at least one intersection
ValidPlacement(g, occ, w) ==
    /\ CellBefore(w) \notin occ
    /\ CellAfter(w) \notin occ
    /\ \A i \in 0..(Len(w.word) - 1) :
          \E c \in {SpanCell(w, i)} :
             IF c \in occ THEN LetterAt(g, c) = <<w.word[i + 1]>>
             ELSE SideCells(c, w.direction) \cap occ = {}
    /\ Crossings(occ, w) /= {}

\* the placements of a word that can reach an occupied cell
Placements(occ, word) ==
    LET xs == {c[1] : c \in occ}
        ys == {c[2] : c \in occ}
        lo(S) == CHOOSE a \in S : \A b \in S : a <= b
        hi(S) == CHOOSE a \in S : \A b \in S : a >= b
    IN  {[word |-> word, x |-> x, y |-> y, direction |-> d] :
            x \in (lo(xs) - Len(word) + 1)..hi(xs),
            y \in (lo(ys) - Len(word) + 1)..hi(ys),
            d \in {"across", "down"}}

CandidatesAreExact(g, word) ==
    \E occ \in {Cells(g)}, cs \in {findCandidates(g, word)} :
        /\ {<<cs[k].x, cs[k].y, cs[k].direction>> : k \in DOMAIN cs}
              = {<<w.x, w.y, w.direction>> :
                    w \in {v \in Placements(occ, word) : ValidPlacement(g, occ, v)}}
        /\ \A j, k \in DOMAIN cs :
              (cs[j].x = cs[k].x /\ cs[j].y = cs[k].y /\ cs[j].direction = cs[k].direction)
                 => j = k
        /\ \A k \in DOMAIN cs :
              /\ Range(cs[k].intersections)
                    = Crossings(occ, [word |-> word, x |-> cs[k].x, y |-> cs[k].y,
                                      direction |-> cs[k].direction])
              /\ \A a, b \in DOMAIN cs[k].intersections :
                    cs[k].intersections[a] = cs[k].intersections[b] => a = b

\* C16: for every non-empty grid of an attempt and every word of the run,
\* findCandidates returns exactly the (origin, direction) pairs of the valid
\* placements with at least one intersection, each once, each with exactly
\* the word indices that fall on occupied cells.
C16_CandidatesAreExact ==
    (pc = "word" /\ grid /= <<>>) =>
        \A k \in DOMAIN sorted : CandidatesAreExact(grid, sorted[k].upper)

\* a word with a candidate of two intersections and a candidate of one
C16_Witness ==
    /\ pc = "word"
    /\ wi <= Len(ordering)
    /\ grid /= <<>>
    /\ \E cs \in {findCandidates(grid, ordering[wi].upper)} :
          /\ \E k \in DOMAIN cs : Len(cs[k].intersections) = 2
          /\ \E k \in DOMAIN cs : Len(cs[k].intersections) = 1

----------------------------------------------------------------------------
(* C17 *)

\* 100 x intersection count - 0.1 x (|x| + |y|), in tenths
ScoreInTenths(c) == 1000 * Len(c.intersections) - (Abs(c.x) + Abs(c.y))

\* the candidates that come before the k-th in the order of choice: those of
\* higher score, and those of the same score that findCandidates lists earlier
Ahead(cs, k) ==
    {j \in DOMAIN cs : \/ ScoreInTenths(cs[j]) > ScoreInTenths(cs[k])
                       \/ ScoreInTenths(cs[j]) = ScoreInTenths(cs[k]) /\ j < k}

\* C17: when a word has candidates, the placement committed on attempt 0 is
\* a candidate of maximal score, the first of them, and on a later attempt
\* it is one of the first three candidates by score; no other placement is
\* committed.
C17_PickAmongTopThree ==
    [][(pc = "word" /\ grid /= <<>> /\ Len(placed') = Len(placed) + 1) =>
          \E cs \in {findCandidates(grid, ordering[wi].upper)},
             w \in {placed'[Len(placed')]} :
             \E k \in DOMAIN cs :
                /\ cs[k].x = w.x
                /\ cs[k].y = w.y
                /\ cs[k].direction = w.direction
                /\ \A j \in DOMAIN cs : attempt = 0 =>
                      ScoreInTenths(cs[j]) <= ScoreInTenths(cs[k])
                /\ Cardinality(Ahead(cs, k)) < (IF attempt = 0 THEN 1 ELSE 3)
      ]_vars

\* a later attempt commits, as its second word, the third of more than three
\* candidates
C17_Witness ==
    /\ pc = "word"
    /\ attempt > 0
    /\ Len(placed) = 2
    /\ \E g \in {placeWord(<<>>, placed[1].word, placed[1].x, placed[1].y,
                           placed[1].direction)} :
          \E cs \in {findCandidates(g, placed[2].word)} :
             /\ Len(cs) > 3
             /\ \E k \in DOMAIN cs :
                   /\ cs[k].x = placed[2].x
                   /\ cs[k].y = placed[2].y
                   /\ cs[k].direction = placed[2].direction
                   /\ Cardinality(Ahead(cs, k)) = 2

----------------------------------------------------------------------------
(* C18 *)

\* a placed word as the attempt recorded it, before numbering
Unnumbered(w) == [w EXCEPT !.number = 0]

\* the coordinates and letters of a grid
Letters(g) == {<<g[i].k, g[i].v.letter>> : i \in DOMAIN g}

\* the result is the kept attempt: its words in order, its cells, its
\* unplaced list
ReturnsKept(res, best) ==
    /\ [i \in DOMAIN res.words |-> Unnumbered(res.words[i])] = best.placed
    /\ Letters(res.grid) = Letters(best.grid)
    /\ res.unplacedWords = best.unplaced

\* C18: the kept best attempt is replaced only by an attempt that placed
\* strictly more words; at the end of an attempt that placed as many or
\* fewer, the stored words, grid and unplaced list stay as they are; the
\* first attempt is kept; the returned result is the kept attempt.
C18_ReplacedOnlyByMore ==
    [][/\ (bestResult /= <<>> /\ bestResult' /= bestResult) =>
             /\ bestResult' /= <<>>
             /\ Len(bestResult'[1].placed) > Len(bestResult[1].placed)
       /\ (pc = "word" /\ wi > Len(ordering) /\ bestResult /= <<>>
              /\ Len(placed) <= Len(bestResult[1].placed)) =>
             bestResult' = bestResult
       /\ (pc = "word" /\ wi > Len(ordering) /\ bestResult = <<>>) =>
             /\ attempt = 0
             /\ bestResult' = <<[placed |-> placed, grid |-> grid, unplaced |-> unplaced]>>
       /\ (result' /= result /\ bestResult /= <<>>) =>
             ReturnsKept(result'[1], bestResult[1])
      ]_vars

\* the end of an attempt that placed as many words as the kept one, but
\* other words
C18_Witness ==
    /\ pc = "word"
    /\ wi > Len(ordering)
    /\ bestResult /= <<>>
    /\ Len(placed) = Len(bestResult[1].placed)
    /\ {placed[i].word : i \in DOMAIN placed}
          /= {bestResult[1].placed[i].word : i \in DOMAIN bestResult[1].placed}

----------------------------------------------------------------------------
(* C19 *)

\* C19: at the end of an attempt that placed every surviving entry the
\* attempt is kept and the loop is left; after the loop nothing but the
\* return happens, without a further attempt, and the return gives the kept
\* attempt; after the return nothing happens.
C19_StopsWhenAllPlaced ==
    [][/\ (pc = "word" /\ wi > Len(ordering) /\ Len(placed) = Len(entries)) =>
             /\ pc' = "finish"
             /\ attempt' = attempt
             /\ bestResult' = <<[placed |-> placed, grid |-> grid, unplaced |-> <<>>]>>
       /\ pc = "finish" =>
             /\ pc' = "done"
             /\ attempt' = attempt
             /\ bestResult' = bestResult
             /\ bestResult /= <<>> => result' = <<[words |-> result'[1].words,
                                                   grid |-> result'[1].grid,
                                                   bounds |-> result'[1].bounds,
                                                   unplacedWords |-> bestResult[1].unplaced]>>
             /\ bestResult /= <<>> =>
                   [i \in DOMAIN result'[1].words |->
                       [result'[1].words[i] EXCEPT !.number = 0]] = bestResult[1].placed
       /\ pc /= "done"
      ]_vars

\* a run returned after its first attempt, which placed three words, with
\* an attempt of the budget left
C19_Witness ==
    /\ Done
    /\ attempt = 0
    /\ maxAttempts >= 2
    /\ Len(entries) = 3
    /\ Len(Res.words) = 3
    /\ Res.unplacedWords = <<>>

----------------------------------------------------------------------------
(* C20 *)

\* C20: generateCrossword returns: every run reaches its result.  It starts
\* at most maxAttempts attempts, and an attempt takes the surviving entries
\* once each: its turn index never passes the end of the ordering by more
\* than one, and the words it placed and skipped are as many as the turns
\* taken.
C20_Terminates ==
    /\ <>Done
    /\ [](/\ attempt <= maxAttempts
          /\ pc = "word" => /\ attempt < maxAttempts
                            /\ Len(ordering) = Len(entries)
                            /\ wi <= Len(ordering) + 1
                            /\ Len(placed) + Len(unplaced) = wi - 1)

\* a run that used its whole budget of two attempts on two entries
C20_Witness ==
    /\ Done
    /\ maxAttempts = 2
    /\ attempt = 2
    /\ Len(entries) = 2
    /\ Len(Res.unplacedWords) = 1

----------------------------------------------------------------------------
(* C21 *)

\* C21: within one attempt the grid only grows: a step of the word loop
\* keeps every cell of the grid with its letter, and the cells it creates
\* are coordinates of the span of the word it has just recorded as placed
\* that were unoccupied before; a step that places no word leaves the grid
\* as it was.
C21_GridOnlyGrows ==
    [][(pc = "word" /\ pc' = "word") =>
          /\ \A c \in Cells(grid) :
                /\ c \in Cells(grid')
                /\ LetterAt(grid', c) = LetterAt(grid, c)
          /\ Len(grid') = Cardinality(Cells(grid'))
          /\ \A c \in Cells(grid') \ Cells(grid) :
                /\ Len(placed') = Len(placed) + 1
                /\ c \in Span(placed'[Len(placed')])
                /\ LetterAt(grid, c) = <<>>
          /\ Len(placed') = Len(placed) => grid' = grid
      ]_vars

\* an attempt whose second word was committed across a cell of the first:
\* one coordinate of its span was occupied already
C21_Witness ==
    /\ pc = "word"
    /\ Len(placed) = 2
    /\ Cardinality(Span(placed[1]) \cap Span(placed[2])) = 1
    /\ Cells(grid) = Span(placed[1]) \cup Span(placed[2])

----------------------------------------------------------------------------
(* C22 *)

\* how many elements of the sequence s equal v
CountOf(s, v) == Cardinality({i \in DOMAIN s : s[i] = v})

\* C22: in the returned result the occupied coordinates of the grid are
\* exactly the union of the spans of the returned words, and the words,
\* the grid and unplacedWords belong to one attempt: when a word is
\* returned, every surviving entry is returned once, either as the label
\* of a placed word or in unplacedWords.
C22_CellsAreSpans ==
    Done =>
       /\ Cells(Res.grid) = UNION {Span(Res.words[i]) : i \in DOMAIN Res.words}
       /\ Len(Res.grid) = Cardinality(Cells(Res.grid))
       /\ Len(Res.words) > 0 =>
             \A i \in DOMAIN entries :
                CountOf([j \in DOMAIN Res.words |-> Res.words[j].label],
                        entries[i].original)
                + CountOf(Res.unplacedWords, entries[i].original) = 1

\* a result of two attempts with two crossing words and a word left out
C22_Witness ==
    /\ Done
    /\ attempt = 2
    /\ Len(Res.words) = 2
    /\ Len(Res.unplacedWords) = 1
    /\ Span(Res.words[1]) \cap Span(Res.words[2]) /= {}

----------------------------------------------------------------------------
(* C23 *)

\* the position of the entry e in the surviving entries
EntryIndex(e) == CHOOSE i \in DOMAIN entries : entries[i] = e

\* C23: attempt 0 takes the surviving entries longest canonical form first,
\* entries of equal length in input order; every attempt takes each
\* surviving entry exactly once.
C23_OrderingIsPermutation ==
    pc = "word" =>
       /\ Len(ordering) = Len(entries)
       /\ \A i \in DOMAIN entries : CountOf(ordering, entries[i]) = 1
       /\ attempt = 0 =>
             \A i, j \in DOMAIN ordering :
                i < j =>
                   /\ Len(ordering[i].upper) >= Len(ordering[j].upper)
                   /\ Len(ordering[i].upper) = Len(ordering[j].upper)
                         => EntryIndex(ordering[i]) < EntryIndex(ordering[j])

\* a second attempt on three entries, two of them of equal length, in an
\* order the shuffle changed
C23_Witness ==
    /\ pc = "word"
    /\ attempt = 1
    /\ Len(ordering) = 3
    /\ ordering /= sorted
    /\ \E i, j \in DOMAIN sorted : i /= j /\ Len(sorted[i].upper) = Len(sorted[j].upper)

----------------------------------------------------------------------------
(* C24 *)

\* the clue number of the cell at c: <<>> when there is no cell or the cell
\* has no number
NumberAt(g, c) ==
    LET cell == getCell(g, c[1], c[2])
    IN  IF cell = <<>> THEN <<>>
        ELSE IF "number" \in DOMAIN cell[1] THEN <<cell[1].number>> ELSE <<>>

\* C24: in the returned grid a cell has a number exactly when a returned
\* word starts on it, and the number is the number of every word starting
\* there; the grid of a running attempt and the kept grid before the return
\* carry no number.
C24_NumberedIffOrigin ==
    /\ Done =>
          \A c \in Cells(Res.grid) :
             /\ NumberAt(Res.grid, c) /= <<>> <=> c \in Origins(Res.words)
             /\ \A i \in DOMAIN Res.words :
                   Origin(Res.words[i]) = c => NumberAt(Res.grid, c) = <<Res.words[i].number>>
    /\ \A c \in Cells(grid) : NumberAt(grid, c) = <<>>
    /\ (~Done /\ bestResult /= <<>>) =>
          \A c \in Cells(bestResult[1].grid) : NumberAt(bestResult[1].grid, c) = <<>>

\* a returned result of three words with two origins, one of them shared
\* by two words
C24_Witness ==
    /\ Done
    /\ Len(Res.words) = 3
    /\ Cardinality(Origins(Res.words)) = 2
    /\ \E c \in Cells(Res.grid) : NumberAt(Res.grid, c) = <<2>>

----------------------------------------------------------------------------
(* C25 *)

\* C25: in the returned result two different words of the same direction
\* share no cell, in particular no origin, and have different clue numbers.
C25_SameDirectionDisjoint ==
    Done =>
       \A i, j \in DOMAIN Res.words :
          (i /= j /\ Res.words[i].direction = Res.words[j].direction) =>
             /\ Span(Res.words[i]) \cap Span(Res.words[j]) = {}
             /\ Res.words[i].number /= Res.words[j].number

----------------------------------------------------------------------------
(* C26 *)

\* C26: when an entry survives and the attempt budget is zero or less, the
\* result has no word, an empty grid, zero bounds and, as unplacedWords,
\* the labels of the surviving entries in their order; when an entry
\* survives and the budget is at least one, the result has a placed word.
C26_NoAttemptOrAWord ==
    (Done /\ Len(entries) > 0) =>
       IF maxAttempts <= 0
       THEN Res = [words |-> <<>>, grid |-> <<>>, bounds |-> ZeroBounds,
                   unplacedWords |-> [i \in DOMAIN entries |-> entries[i].original]]
       ELSE Len(Res.words) >= 1

\* a return with a negative budget, two surviving entries and a dropped one
C26_Witness ==
    /\ Done
    /\ maxAttempts < 0
    /\ Len(entries) = 2
    /\ Len(inputEntries) = 3

----------------------------------------------------------------------------
(* C27 *)

\* C27: in the App, isGenerating is true whenever a scheduled generation is
\* pending, and at most one generation is pending at a time.
C27_GeneratingWhilePending ==
    /\ timers /= <<>> => isGenerating
    /\ Len(timers) <= 1

----------------------------------------------------------------------------
(* C28 *)

\* C28: in WordInput the table always holds at least two rows.
C28_AtLeastTwoRows == Len(tableEntries) >= 2

\* back in table mode from a text of one entry: the parsed entry and one
\* empty row
C28_Witness ==
    /\ mode = "table"
    /\ Len(textToEntries(text)) = 1
    /\ tableEntries = textToEntries(text) \o <<EMPTY_ROW>>

----------------------------------------------------------------------------
(* C29 *)

\* a list of at least two entries, each with a word that is not empty
\* after trimming
Submittable(es) ==
    /\ Len(es) >= 2
    /\ \A i \in DOMAIN es : Len(trim(es[i].word)) > 0

\* C29: every list a pending generation will hand to generateCrossword,
\* and the last submitted list once there is one, has at least two entries
\* and only entries whose trimmed word is not empty.
C29_OnlyValidListsSubmitted ==
    /\ \A i \in DOMAIN timers : Submittable(timers[i])
    /\ lastEntriesRef /= <<>> => Submittable(lastEntriesRef)

\* a generation from the text mode is pending together with a regeneration
\* of an earlier list, which dropped a row of the table
C29_Witness ==
    /\ mode = "text"
    /\ Len(timers) = 2
    /\ timers[1] /= timers[2]
    /\ Len(timers[1]) < Len(tableEntries)

----------------------------------------------------------------------------
(* C30 *)

\* the (trimmed word, trimmed clue) of the rows whose trimmed word is not
\* empty
TrimmedRows(rows) ==
    SelectSeq([i \in DOMAIN rows |-> [word |-> trim(rows[i].word),
                                      clue |-> trim(rows[i].clue)]],
              LAMBDA e : e.word /= <<>>)

\* C30: for the rows of the table, textToEntries(entriesToText(rows)) is
\* the sequence of (trimmed word, trimmed clue) of the rows whose trimmed
\* word is not empty.
C30_RoundTripPreserves ==
    textToEntries(entriesToText(tableEntries)) = TrimmedRows(tableEntries)

====
